---- MODULE Spec2Model ----
(***************************************************************************)
(* Model of server/python/lidar_processor.py: the command line run         *)
(* (decode, process_map, canny, two writes) and the stages of process_map  *)
(* (median blur, inverted threshold, morphological close, gap-fill sweep). *)
(* An image is a function from its cells <<row, col>> to 8-bit values.     *)
(***************************************************************************)
EXTENDS Integers, Sequences, FiniteSets, TLC

(***************************************************************************)
(* Bounds of the explored inputs.                                          *)
(***************************************************************************)
MaxRows == 5
MaxCols == 5
WallLen == 5
GapShort == 3
GapLong == 30

(***************************************************************************)
(* Constants of process_map.                                               *)
(***************************************************************************)
median_kernel == 3
morph_kernel == 5
MAX_GAP_SIZE == 20
RESOLUTION_CM_PER_PIXEL == 5
ThreshValue == 1
MaxValue == 255

VARIABLES
    pc,              \* position of the run
    rows, cols,      \* img.shape
    channels,        \* number of channels of the decoded image (the planes of a
                     \* multi-channel image are equal; img holds one of them)
    img,             \* result of cv2.imread (None when the file does not decode)
    img_blur,        \* after the median blur
    binary,          \* after the inverted threshold
    binary_clean,    \* after the morphological close: input of the gap fill
    cfg,             \* <<MAX_GAP_SIZE, RESOLUTION_CM_PER_PIXEL>> in force
    MAX_GAP_PIXELS,
    inverted,
    result,
    range_next,      \* next value of the range iterator of the sweep
    kernel_size,     \* loop variable of the sweep
    ks,              \* kernel sizes whose body was evaluated, in order
    broke,           \* the break of line 71 was taken
    skipped,         \* cells of the components the size gate rejected so far
    IMAGE_clean,     \* value returned by process_map
    pass,            \* 1: first fill, 2: the fill run again on its own output
    firstOut,        \* IMAGE_clean of the first pass
    scenario,        \* gap cells of a wall scenario input (empty record otherwise)
    processed_image_2,
    written,         \* suffixes of the output files written
    exitCode         \* -1 while running, then the exit status of the process

vars == <<pc, rows, cols, channels, img, img_blur, binary, binary_clean, cfg,
          MAX_GAP_PIXELS, inverted, result, range_next, kernel_size, ks, broke,
          skipped, IMAGE_clean, pass, firstOut, scenario, processed_image_2, written,
          exitCode>>

None == << >>
NoScenario == [gap3 |-> {}, gap30 |-> {}, wall |-> 0]

Cells(h, w) == (0 .. h - 1) \X (0 .. w - 1)

Max(S) == CHOOSE x \in S : \A y \in S : y <= x
Min(S) == CHOOSE x \in S : \A y \in S : x <= y

Clamp(i, n) == IF i < 0 THEN 0 ELSE IF i > n - 1 THEN n - 1 ELSE i

(***************************************************************************)
(* cv2.medianBlur(img, ksize): median of the ksize x ksize window, the     *)
(* border replicated.                                                      *)
(***************************************************************************)
MedianBlur(src, h, w, ksize) ==
    LET half == ksize \div 2
        Offs == (-half .. half) \X (-half .. half)
        Val(p, o) == src[<<Clamp(p[1] + o[1], h), Clamp(p[2] + o[2], w)>>]
        Med(p) == CHOOSE v \in {Val(p, o) : o \in Offs} :
                    /\ 2 * Cardinality({o \in Offs : Val(p, o) < v}) < Cardinality(Offs)
                    /\ 2 * Cardinality({o \in Offs : Val(p, o) <= v}) > Cardinality(Offs)
    IN  [p \in Cells(h, w) |-> Med(p)]

(***************************************************************************)
(* cv2.threshold(src, thresh, maxval, THRESH_BINARY_INV) on one value.     *)
(***************************************************************************)
ThresholdStrict(v, thresh, maxval) == IF v >= thresh THEN 0 ELSE maxval

ThresholdBinaryInv(v, thresh, maxval) == IF v > thresh THEN 0 ELSE maxval

Threshold(src, h, w, thresh, maxval) ==
    [p \in Cells(h, w) |-> ThresholdBinaryInv(src[p], thresh, maxval)]

(***************************************************************************)
(* cv2.dilate / cv2.erode with a kh x kw kernel of ones anchored at its    *)
(* centre; cells outside the image do not take part (default border).      *)
(***************************************************************************)
Window(p, h, w, kh, kw) ==
    {q \in ((p[1] - kh \div 2) .. (p[1] + kh \div 2))
           \X ((p[2] - kw \div 2) .. (p[2] + kw \div 2)) :
        /\ q[1] >= 0 /\ q[1] < h
        /\ q[2] >= 0 /\ q[2] < w}

Dilate(src, h, w, kh, kw) ==
    [p \in Cells(h, w) |-> Max({src[q] : q \in Window(p, h, w, kh, kw)})]

Erode(src, h, w, kh, kw) ==
    [p \in Cells(h, w) |-> Min({src[q] : q \in Window(p, h, w, kh, kw)})]

MorphClose(src, h, w, kh, kw) == Erode(Dilate(src, h, w, kh, kw), h, w, kh, kw)

(***************************************************************************)
(* Bitwise operations on 8-bit values.                                     *)
(***************************************************************************)
RECURSIVE BitAnd(_, _, _)
BitAnd(a, b, n) ==
    IF n = 0 THEN 0
    ELSE (a % 2) * (b % 2) + 2 * BitAnd(a \div 2, b \div 2, n - 1)

RECURSIVE BitOr(_, _, _)
BitOr(a, b, n) ==
    IF n = 0 THEN 0
    ELSE (IF a % 2 = 1 \/ b % 2 = 1 THEN 1 ELSE 0)
         + 2 * BitOr(a \div 2, b \div 2, n - 1)

bitwise_not(src, h, w) == [p \in Cells(h, w) |-> 255 - src[p]]

bitwise_and(a, b, h, w) == [p \in Cells(h, w) |-> BitAnd(a[p], b[p], 8)]

bitwise_or(a, b, h, w) == [p \in Cells(h, w) |-> BitOr(a[p], b[p], 8)]

(***************************************************************************)
(* cv2.connectedComponentsWithStats(src, connectivity=8): the components   *)
(* of the nonzero cells, and the statistics the gate reads.                *)
(***************************************************************************)
Adjacent8(p, q) ==
    /\ p # q
    /\ p[1] - q[1] \in -1 .. 1
    /\ p[2] - q[2] \in -1 .. 1

RECURSIVE Grow(_, _, _)
Grow(front, seen, S) ==
    LET new == {q \in S \ seen : \E p \in front : Adjacent8(p, q)}
    IN  IF new = {} THEN seen ELSE Grow(new, seen \cup new, S)

RECURSIVE ComponentsOf(_)
ComponentsOf(S) ==
    IF S = {} THEN {}
    ELSE LET p == CHOOSE x \in S : TRUE
             comp == Grow({p}, {p}, S)
         IN  {comp} \cup ComponentsOf(S \ comp)

connectedComponents(src, h, w) == ComponentsOf({p \in Cells(h, w) : src[p] # 0})

CC_STAT_WIDTH(comp) == Max({p[2] : p \in comp}) - Min({p[2] : p \in comp}) + 1
CC_STAT_HEIGHT(comp) == Max({p[1] : p \in comp}) - Min({p[1] : p \in comp}) + 1
CC_STAT_AREA(comp) == Cardinality(comp)

(***************************************************************************)
(* The gap fill of process_map (STEP 4).                                   *)
(***************************************************************************)
\* int(a / b) of Python: the quotient truncated towards zero (b # 0).
TruncDiv(a, b) ==
    LET abs(x) == IF x < 0 THEN -x ELSE x
        q == abs(a) \div abs(b)
    IN  IF (a < 0) = (b < 0) THEN q ELSE -q

\* range(3, MAX_GAP_PIXELS * 2 + 1, 2): first value, exclusive stop, step.
RangeStart == 3
RangeStep == 2
RangeStopWide(M) == M * 2 + 3
RangeStop(M) == M * 2 + 1

\* if kernel_size >= MAX_GAP_PIXELS * 2: break
BreakCondEarly(k, M) == k >= M
BreakCond(k, M) == k >= M * 2

\* max_dimension <= MAX_GAP_PIXELS and gap_area <= MAX_GAP_PIXELS ** 2
GapGateEither(comp, M) ==
    \/ Max({CC_STAT_WIDTH(comp), CC_STAT_HEIGHT(comp)}) <= M
    \/ CC_STAT_AREA(comp) <= M * M
GapGate(comp, M) ==
    /\ Max({CC_STAT_WIDTH(comp), CC_STAT_HEIGHT(comp)}) <= M
    /\ CC_STAT_AREA(comp) <= M * M

\* filled_gaps = dilated AND NOT inverted, and its components
FilledGaps(inv, h, w, k) ==
    bitwise_and(Dilate(inv, h, w, k, morph_kernel), bitwise_not(inv, h, w), h, w)

GapComponents(inv, h, w, k) == connectedComponents(FilledGaps(inv, h, w, k), h, w)

GapMask(comp, h, w) == [p \in Cells(h, w) |-> IF p \in comp THEN 255 ELSE 0]

\* the inner loop: every component that passes the gate is ORed into result
RECURSIVE FillComponents(_, _, _, _, _)
FillComponents(res, comps, M, h, w) ==
    IF comps = {} THEN res
    ELSE LET comp == CHOOSE c \in comps : TRUE
             next == IF GapGate(comp, M)
                     THEN bitwise_or(res, GapMask(comp, h, w), h, w)
                     ELSE res
         IN  FillComponents(next, comps \ {comp}, M, h, w)

SweepBody(res, inv, h, w, k, M) ==
    FillComponents(res, GapComponents(inv, h, w, k), M, h, w)

\* The values of range(start, stop, step), step > 0.
RECURSIVE Range(_, _, _)
Range(start, stop, step) ==
    IF start >= stop THEN << >>
    ELSE <<start>> \o Range(start + step, stop, step)

SweepRange(M) == Range(RangeStart, RangeStop(M), RangeStep)

\* The loop of lines 47-68 without the break of lines 70-71: the body for
\* every value of the range from index i on.
RECURSIVE LoopNoBreak(_, _, _, _, _, _)
LoopNoBreak(i, res, inv, h, w, M) ==
    IF i > Len(SweepRange(M)) THEN res
    ELSE LoopNoBreak(i + 1, SweepBody(res, inv, h, w, SweepRange(M)[i], M),
                     inv, h, w, M)

\* IMAGE_clean = cv2.bitwise_not(result)
ReinvertMissing(res, h, w) == res
Reinvert(res, h, w) == bitwise_not(res, h, w)

(***************************************************************************)
(* Inputs.                                                                 *)
(***************************************************************************)
RectImage(h, w, r1, r2, c1, c2, bg, fg) ==
    [p \in Cells(h, w) |->
        IF p[1] >= r1 /\ p[1] <= r2 /\ p[2] >= c1 /\ p[2] <= c2 THEN fg ELSE bg]

\* <<background, rectangle>> intensities of the raw images
IntensityPairs == << <<255, 0>>, <<0, 255>>, <<2, 1>>, <<1, 2>> >>

\* <<MAX_GAP_SIZE, RESOLUTION_CM_PER_PIXEL>> settings of the gap fill
Configs == {<<MAX_GAP_SIZE, RESOLUTION_CM_PER_PIXEL>>, <<15, 5>>, <<10, 5>>,
            <<5, 5>>, <<0, 5>>, <<20, 25>>, <<-3, 5>>, <<20, 0>>}

\* two horizontal walls, the first broken by GapShort cells from column g,
\* the second by GapLong cells
WallRows == 9
WallCols == GapLong + 2 * WallLen
WallGap3(g) == {2} \X (g .. g + GapShort - 1)
WallGap30 == {6} \X (WallLen .. WallLen + GapLong - 1)
\* the wall is OCCUPIED on a FREE ground, or FREE on an OCCUPIED ground
WallValues == <<255, 0>>
WallImage(g, wall) ==
    [p \in Cells(WallRows, WallCols) |->
        IF p[1] \in {2, 6} /\ p \notin WallGap3(g) /\ p \notin WallGap30
        THEN wall ELSE 255 - wall]

(***************************************************************************)
(* Initial states.                                                         *)
(***************************************************************************)
Idle ==
    /\ img_blur = None /\ binary = None
    /\ MAX_GAP_PIXELS = 0 /\ inverted = None /\ result = None
    /\ range_next = 0 /\ kernel_size = 0 /\ ks = << >> /\ broke = FALSE /\ skipped = {}
    /\ IMAGE_clean = None /\ pass = 1 /\ firstOut = None
    /\ processed_image_2 = None /\ written = {} /\ exitCode = -1

\* The command line run: a file that does not decode, a one-cell image of any
\* 8-bit intensity, or an image holding one rectangle; the configuration is
\* the one process_map sets.
Init ==
    /\ pc = "load"
    /\ cfg = <<MAX_GAP_SIZE, RESOLUTION_CM_PER_PIXEL>>
    /\ binary_clean = None
    /\ scenario = NoScenario
    /\ Idle
    /\ \/ /\ \E i \in 0 .. MaxRows - 1 : rows = MaxRows - i
          /\ \E j \in 0 .. MaxCols - 1 : cols = MaxCols - j
          /\ channels \in {1, 3}
          /\ \E n \in DOMAIN IntensityPairs, r1 \in 0 .. rows - 1, c1 \in 0 .. cols - 1 :
               \E r2 \in r1 .. rows - 1, c2 \in c1 .. cols - 1 :
                  img = RectImage(rows, cols, r1, r2, c1, c2,
                                  IntensityPairs[n][1], IntensityPairs[n][2])
       \/ /\ rows = 1 /\ cols = 1
          /\ channels \in {1, 3}
          /\ \E v \in 0 .. 255 : img = [p \in Cells(1, 1) |-> v]
       \/ /\ rows = 0 /\ cols = 0 /\ channels = 0
          /\ img = None

\* The gap-fill stage on its own: a binary grid in place of the output of the
\* close (the wall scenario under the configuration of process_map, a grid
\* holding one rectangle under each configuration).
InitStage ==
    /\ pc = "fill"
    /\ img = None
    /\ channels = 1
    /\ Idle
    /\ \/ /\ cfg = <<MAX_GAP_SIZE, RESOLUTION_CM_PER_PIXEL>>
          /\ rows = WallRows
          /\ cols = WallCols
          /\ \E n \in DOMAIN WallValues, g \in 1 .. WallLen :
               /\ binary_clean = WallImage(g + WallLen, WallValues[n])
               /\ scenario = [gap3 |-> WallGap3(g + WallLen), gap30 |-> WallGap30,
                              wall |-> WallValues[n]]
       \/ /\ cfg \in Configs
          /\ scenario = NoScenario
          /\ \E i \in 0 .. MaxRows - 1 : rows = MaxRows - i
          /\ \E j \in 0 .. MaxCols - 1 : cols = MaxCols - j
          /\ \E r1 \in 0 .. rows - 1, c1 \in 0 .. cols - 1, fg \in {0, 255} :
               \E r2 \in r1 .. rows - 1, c2 \in c1 .. cols - 1 :
                  binary_clean = RectImage(rows, cols, r1, r2, c1, c2, 255 - fg, fg)

(***************************************************************************)
(* Steps of process_map.                                                   *)
(***************************************************************************)
Raise ==
    /\ pc' = "exit"
    /\ exitCode' = 1

\* img = cv2.imread(...); if img is None: raise FileNotFoundError
Load ==
    /\ pc = "load"
    /\ IF img = None
       THEN Raise
       ELSE pc' = "blur" /\ UNCHANGED exitCode
    /\ UNCHANGED <<rows, cols, channels, img, img_blur, binary, binary_clean, cfg,
                   MAX_GAP_PIXELS, inverted, result, range_next, kernel_size, ks, broke,
                   skipped, IMAGE_clean, pass, firstOut, scenario,
                   processed_image_2, written>>

\* img_blur = cv2.medianBlur(img, median_kernel)
Blur ==
    /\ pc = "blur"
    /\ img_blur' = MedianBlur(img, rows, cols, median_kernel)
    /\ pc' = "threshold"
    /\ UNCHANGED <<rows, cols, channels, img, binary, binary_clean, cfg,
                   MAX_GAP_PIXELS, inverted, result, range_next, kernel_size, ks, broke,
                   skipped, IMAGE_clean, pass, firstOut, scenario,
                   processed_image_2, written, exitCode>>

\* _, binary = cv2.threshold(img_blur, 1, 255, cv2.THRESH_BINARY_INV)
Binarize ==
    /\ pc = "threshold"
    /\ binary' = Threshold(img_blur, rows, cols, ThreshValue, MaxValue)
    /\ pc' = "close"
    /\ UNCHANGED <<rows, cols, channels, img, img_blur, binary_clean, cfg,
                   MAX_GAP_PIXELS, inverted, result, range_next, kernel_size, ks, broke,
                   skipped, IMAGE_clean, pass, firstOut, scenario,
                   processed_image_2, written, exitCode>>

\* kernel = np.ones((median_kernel, morph_kernel)); cv2.morphologyEx(MORPH_CLOSE)
Close ==
    /\ pc = "close"
    /\ binary_clean' = MorphClose(binary, rows, cols, median_kernel, morph_kernel)
    /\ pc' = "fill"
    /\ UNCHANGED <<rows, cols, channels, img, img_blur, binary, cfg,
                   MAX_GAP_PIXELS, inverted, result, range_next, kernel_size, ks, broke,
                   skipped, IMAGE_clean, pass, firstOut, scenario,
                   processed_image_2, written, exitCode>>

\* Lines 40-45: MAX_GAP_PIXELS, inverted, the (unused) labelling of inverted,
\* result = inverted.copy(), and the creation of the range iterator.  The
\* division raises on a zero resolution and the labelling on an image that is
\* not single-channel.
FillStart ==
    /\ pc = "fill"
    /\ IF cfg[2] = 0 \/ channels # 1
       THEN /\ Raise
            /\ inverted' = IF cfg[2] = 0 THEN inverted
                           ELSE bitwise_not(binary_clean, rows, cols)
            /\ MAX_GAP_PIXELS' = IF cfg[2] = 0 THEN MAX_GAP_PIXELS
                                 ELSE TruncDiv(cfg[1], cfg[2])
            /\ UNCHANGED <<result, range_next>>
       ELSE /\ MAX_GAP_PIXELS' = TruncDiv(cfg[1], cfg[2])
            /\ inverted' = bitwise_not(binary_clean, rows, cols)
            /\ result' = bitwise_not(binary_clean, rows, cols)
            /\ range_next' = RangeStart
            /\ pc' = "sweep"
            /\ UNCHANGED exitCode
    /\ UNCHANGED <<rows, cols, channels, img, img_blur, binary, binary_clean, cfg,
                   kernel_size, ks, broke, skipped, IMAGE_clean, pass, firstOut, scenario,
                   processed_image_2, written>>

\* One iteration of the for loop (lines 47-71): the body for kernel_size, then
\* the break check.
Sweep ==
    /\ pc = "sweep"
    /\ range_next < RangeStop(MAX_GAP_PIXELS)
    /\ kernel_size' = range_next
    /\ result' = SweepBody(result, inverted, rows, cols, range_next, MAX_GAP_PIXELS)
    /\ skipped' = skipped \cup
          UNION {comp \in GapComponents(inverted, rows, cols, range_next) :
                    ~GapGate(comp, MAX_GAP_PIXELS)}
    /\ ks' = Append(ks, range_next)
    /\ IF BreakCond(range_next, MAX_GAP_PIXELS)
       THEN /\ broke' = TRUE
            /\ pc' = "invert"
            /\ UNCHANGED range_next
       ELSE /\ range_next' = range_next + RangeStep
            /\ UNCHANGED <<broke, pc>>
    /\ UNCHANGED <<rows, cols, channels, img, img_blur, binary, binary_clean, cfg,
                   MAX_GAP_PIXELS, inverted, IMAGE_clean, pass, firstOut, scenario,
                   processed_image_2, written, exitCode>>

\* The range is exhausted: the loop ends.
SweepEnd ==
    /\ pc = "sweep"
    /\ range_next >= RangeStop(MAX_GAP_PIXELS)
    /\ pc' = "invert"
    /\ UNCHANGED <<rows, cols, channels, img, img_blur, binary, binary_clean, cfg,
                   MAX_GAP_PIXELS, inverted, result, range_next, kernel_size, ks, broke,
                   skipped, IMAGE_clean, pass, firstOut, scenario,
                   processed_image_2, written, exitCode>>

\* IMAGE_clean = cv2.bitwise_not(result); return IMAGE_clean
Return ==
    /\ pc = "invert"
    /\ IMAGE_clean' = Reinvert(result, rows, cols)
    /\ pc' = "returned"
    /\ UNCHANGED <<rows, cols, channels, img, img_blur, binary, binary_clean, cfg,
                   MAX_GAP_PIXELS, inverted, result, range_next, kernel_size, ks, broke,
                   skipped, pass, firstOut, scenario, processed_image_2, written,
                   exitCode>>

\* The gap fill run a second time, on its own output, with the same settings.
Refill ==
    /\ pc = "returned"
    /\ pass = 1
    /\ pass' = 2
    /\ firstOut' = IMAGE_clean
    /\ binary_clean' = IMAGE_clean
    /\ ks' = << >>
    /\ broke' = FALSE
    /\ skipped' = {}
    /\ pc' = "fill"
    /\ UNCHANGED <<rows, cols, channels, img, img_blur, binary, cfg,
                   MAX_GAP_PIXELS, inverted, result, range_next, kernel_size, IMAGE_clean,
                   scenario, processed_image_2, written, exitCode>>

(***************************************************************************)
(* Steps of the main block.                                                *)
(***************************************************************************)
\* processed_image_2 = canny(processed_image): the edge image drawn in colour,
\* of which the shape is kept.
Canny ==
    /\ pc = "returned"
    /\ processed_image_2' = <<rows, cols, 3>>
    /\ pc' = "write1"
    /\ UNCHANGED <<rows, cols, channels, img, img_blur, binary, binary_clean, cfg,
                   MAX_GAP_PIXELS, inverted, result, range_next, kernel_size, ks, broke,
                   skipped, IMAGE_clean, pass, firstOut, scenario, written,
                   exitCode>>

\* cv2.imwrite returns True, or False when the file cannot be written; the
\* value is dropped.
WriteOutcomes == <<TRUE, FALSE>>

Write(ok, suffix, next) ==
    /\ written' = IF ok THEN written \cup {suffix} ELSE written
    /\ pc' = next

WriteProcessed ==
    /\ pc = "write1"
    /\ \E n \in DOMAIN WriteOutcomes : Write(WriteOutcomes[n], "_processed", "write2")
    /\ UNCHANGED <<rows, cols, channels, img, img_blur, binary, binary_clean, cfg,
                   MAX_GAP_PIXELS, inverted, result, range_next, kernel_size, ks, broke,
                   skipped, IMAGE_clean, pass, firstOut, scenario,
                   processed_image_2, exitCode>>

WriteEdges ==
    /\ pc = "write2"
    /\ \E n \in DOMAIN WriteOutcomes : Write(WriteOutcomes[n], "_edges", "exit")
    /\ exitCode' = 0
    /\ UNCHANGED <<rows, cols, channels, img, img_blur, binary, binary_clean, cfg,
                   MAX_GAP_PIXELS, inverted, result, range_next, kernel_size, ks, broke,
                   skipped, IMAGE_clean, pass, firstOut, scenario,
                   processed_image_2>>

Next ==
    \/ Load
    \/ Blur
    \/ Binarize
    \/ Close
    \/ FillStart
    \/ Sweep
    \/ SweepEnd
    \/ Return
    \/ Canny
    \/ WriteProcessed
    \/ WriteEdges

Spec == Init /\ [][Next]_vars

NextStage ==
    \/ FillStart
    \/ Sweep
    \/ SweepEnd
    \/ Return
    \/ Refill

SpecStage == InitStage /\ [][NextStage]_vars

(***************************************************************************)
(* Properties.                                                             *)
(***************************************************************************)
OCCUPIED == MaxValue
FREE == 0

\* C1: every cell that is OCCUPIED in the grid entering the gap fill is
\* OCCUPIED in the grid it returns.
C1_OccupiedKept ==
    pc = "returned" =>
        \A p \in Cells(rows, cols) :
            binary_clean[p] = OCCUPIED => IMAGE_clean[p] = OCCUPIED

\* C2: on a grid whose FREE cells form exactly one hole, a hole with
\* max(w,h) > maxGapPixels keeps all its cells FREE, and a hole with
\* max(w,h) <= maxGapPixels and area <= maxGapPixels^2 has all its cells
\* OCCUPIED in the output.
C2_SizeGate ==
    (pc = "returned" /\ pass = 1) =>
        LET holes == ComponentsOf({p \in Cells(rows, cols) : binary_clean[p] = FREE})
            M == MAX_GAP_PIXELS
        IN  (Cardinality(holes) = 1
                /\ \E p \in Cells(rows, cols) : binary_clean[p] = OCCUPIED) =>
            \A hole \in holes :
               LET big == Max({CC_STAT_WIDTH(hole), CC_STAT_HEIGHT(hole)})
               IN  /\ big > M => \A p \in hole : IMAGE_clean[p] = FREE
                   /\ (big <= M /\ CC_STAT_AREA(hole) <= M * M) =>
                          \A p \in hole : IMAGE_clean[p] = OCCUPIED

\* C3: when floor(maxGapSizeCm / resolutionCmPerPixel) <= 0 the sweep runs no
\* iteration, nothing is raised, and the returned grid equals the input grid.
C3_NoOp ==
    (cfg[2] > 0 /\ cfg[1] \div cfg[2] <= 0) =>
        /\ ks = << >>
        /\ exitCode = -1
        /\ pc = "returned" => IMAGE_clean = binary_clean

C3_Witness ==
    /\ pc = "returned"
    /\ cfg[2] > 0 /\ cfg[1] \div cfg[2] <= 0
    /\ \E p, q \in Cells(rows, cols) : binary_clean[p] # binary_clean[q]

\* C4: the gap fill applied to its own output returns that output unchanged.
C4_Idempotent ==
    (pc = "returned" /\ pass = 2) => IMAGE_clean = firstOut

\* C5: in the wall scenario (maxGapPixels = 4) the cells of the 3-pixel gap
\* take the wall's value and the cells of the 30-pixel gap keep their input
\* value.
C5_WallGap ==
    (pc = "returned" /\ pass = 1 /\ scenario.gap3 # {}) =>
        /\ \A p \in scenario.gap3 : IMAGE_clean[p] = scenario.wall
        /\ \A p \in scenario.gap30 : IMAGE_clean[p] = binary_clean[p]

\* C6 as stated: a cell is OCCUPIED exactly when its intensity is strictly
\* below lowThreshold = 1, and FREE otherwise.
C6_BelowThreshold ==
    binary # None =>
        \A p \in Cells(rows, cols) :
            binary[p] = (IF img_blur[p] < ThreshValue THEN OCCUPIED ELSE FREE)

\* C6 as amended: a cell is OCCUPIED exactly when its intensity is at or
\* below the threshold 1 (so 0 and 1 map to OCCUPIED), and FREE otherwise.
C6_AtOrBelowThreshold ==
    binary # None =>
        \A p \in Cells(rows, cols) :
            binary[p] = (IF img_blur[p] <= ThreshValue THEN OCCUPIED ELSE FREE)

C6_Witness ==
    /\ binary # None
    /\ \E p \in Cells(rows, cols) : img_blur[p] = ThreshValue /\ binary[p] = OCCUPIED
    /\ \E p \in Cells(rows, cols) : img_blur[p] = ThreshValue + 1 /\ binary[p] = FREE

\* C7: when the run has ended, both output images are written or neither is,
\* and a run whose input decoded but which did not write both ended with an
\* error status.
C7_NoPartialOutput ==
    pc = "exit" =>
        /\ written \in {{}, {"_processed", "_edges"}}
        /\ (img # None /\ written # {"_processed", "_edges"}) => exitCode # 0

\* C8 as stated: no cell of a component that some iteration rejected as
\* oversize is filled in the final result.
C8_OversizeNeverFilled ==
    pc = "returned" => \A p \in skipped : result[p] = inverted[p]

Oversize(comp, M) ==
    \/ Max({CC_STAT_WIDTH(comp), CC_STAT_HEIGHT(comp)}) > M
    \/ CC_STAT_AREA(comp) > M * M

\* C8 as amended: the iteration for kernel height k fills no cell of a
\* component of its candidateGaps that is oversize (such a cell may still be
\* filled by another iteration, in which it lies in a component within both
\* bounds).
C8_OversizeNotFilledByItsIteration ==
    [][(pc = "sweep" /\ ks' # ks) =>
          \A comp \in GapComponents(inverted, rows, cols, range_next) :
              Oversize(comp, MAX_GAP_PIXELS) =>
                  \A p \in comp : result'[p] = result[p]]_vars

C8_Witness ==
    /\ pc = "returned"
    /\ \E p \in skipped : result[p] # inverted[p]
    /\ \E p \in skipped : result[p] = inverted[p]

OddsFrom3(n) == [i \in 1 .. n |-> 2 * i + 1]

\* C9 as stated: for maxGapPixels >= 1 the kernel heights evaluated are
\* 3, 5, ..., 2*maxGapPixels + 1 and the stop condition is true at the last
\* step executed.
C9_SweepReachesBound ==
    (pc = "returned" /\ MAX_GAP_PIXELS >= 1) =>
        /\ ks = OddsFrom3(MAX_GAP_PIXELS)
        /\ broke

\* C9 as amended: for maxGapPixels >= 1 the kernel heights evaluated are
\* 3, 5, ..., 2*maxGapPixels - 1 (none when maxGapPixels = 1), and the stop
\* condition k >= 2*maxGapPixels is false at every step executed.
C9_SweepStopsBelowBound ==
    (pc = "returned" /\ MAX_GAP_PIXELS >= 1) =>
        /\ ks = OddsFrom3(MAX_GAP_PIXELS - 1)
        /\ \A i \in 1 .. Len(ks) : ~(ks[i] >= 2 * MAX_GAP_PIXELS)
        /\ ~broke

C9_Witness ==
    /\ pc = "returned"
    /\ MAX_GAP_PIXELS >= 3
    /\ Len(ks) = MAX_GAP_PIXELS - 1
    /\ \E p \in Cells(rows, cols) : result[p] # inverted[p]

C10_Safe ==
    /\ pc \in {"sweep", "invert", "returned"} =>
          /\ Len(ks) <= Len(SweepRange(MAX_GAP_PIXELS))
          /\ ks = SubSeq(SweepRange(MAX_GAP_PIXELS), 1, Len(ks))
    /\ pc \in {"invert", "returned"} => ks = SweepRange(MAX_GAP_PIXELS)
    /\ pc = "returned" =>
          result = LoopNoBreak(1, inverted, inverted, rows, cols, MAX_GAP_PIXELS)

C10_Advance ==
    pc = "sweep" =>
       \/ pc' = "invert"
       \/ /\ range_next < range_next'
          /\ range_next' < RangeStop(MAX_GAP_PIXELS) + RangeStep

\* C10: the loop ends (every step of it leaves the loop or advances the
\* iterator, which is bounded by the stop of the range), the heights of its
\* range are evaluated once each in increasing order, none skipped, and the
\* loop without the break evaluates the same heights and yields the same
\* result.
C10_SinglePass == []C10_Safe /\ [][C10_Advance]_vars

C10_Witness ==
    /\ pc = "returned"
    /\ Len(ks) >= 2
    /\ \E p \in Cells(rows, cols) : result[p] # inverted[p]

====
